---- MODULE Spec2Model ----
(***************************************************************************)
(* Repository metadata resolution of the `built` crate: the git2 backend   *)
(* (src/src/git.rs), the gix backend (src/src/gix.rs) and the resolver     *)
(* that merges environment overrides with backend results                  *)
(* (src/src/git_shared.rs).                                                *)
(*                                                                         *)
(* Text is a sequence of one-character strings.  Option<T> is a set with   *)
(* at most one element: None is {} and Some(v) is {v}.                     *)
(***************************************************************************)
EXTENDS Integers, Sequences, FiniteSets, TLC

(* ---------------------------- bounds ----------------------------------- *)

\* Directories form a chain 0 (filesystem root) .. MaxDepth.
MaxDepth == 2
\* At most this many library queries fail in one repository state.
MaxFaults == 2
\* At most this many distinct status kinds are present in the work tree.
MaxEntries == 2
\* Length of a full commit hash in the model (longer than SHORT_HASH_LENGTH).
HashLen == 10
\* Length of the abbreviation the libraries choose for an object id.
AbbrevLen == 7
\* Length of the short text used as a commit-hash override.
ShortTextLen == 5
\* At most this many queries fail in the initial states of the resolver.
ResolverMaxFaults == 1

(* ------------------------ program constants ---------------------------- *)

SHORT_HASH_LENGTH == 8

(* ------------------------------ text ----------------------------------- *)

Hex == <<"0", "1", "2", "3", "4", "5", "6", "7", "8", "9", "a", "b", "c", "d", "e", "f">>

\* A text of hexadecimal digits of length n, determined by seed.
HexText(seed, n) == [i \in 1..n |-> Hex[((seed + 3 * i) % 16) + 1]]

Min(a, b) == IF a < b THEN a ELSE b

\* s.chars().take(n).collect()
Take(s, n) == SubSeq(s, 1, Min(n, Len(s)))

\* full.starts_with(short)
StartsWith(full, short) ==
    /\ Len(short) <= Len(full)
    /\ SubSeq(full, 1, Len(short)) = short

EmptyText == << >>
RefsHeadsBaz == <<"r", "e", "f", "s", "/", "h", "e", "a", "d", "s", "/", "b", "a", "z">>
LossyRefName == <<"r", "e", "f", "s", "/", "h", "e", "a", "d", "s", "/", "?">>
RefsHeadsMaster == <<"r", "e", "f", "s", "/", "h", "e", "a", "d", "s", "/", "m", "a", "s", "t", "e", "r">>
HeadName == <<"H", "E", "A", "D">>
Foobar == <<"f", "o", "o", "b", "a", "r">>
OverrideRef == <<"r", "e", "f", "s", "/", "h", "e", "a", "d", "s", "/", "o", "v">>
OverrideVersion == <<"v", "1">>

(* ----------------------------- Option ---------------------------------- *)

None == {}
Some(v) == {v}
IsSome(o) == o # {}
Unwrap(o) == CHOOSE v \in o : TRUE
\* Option::or
Or(a, b) == IF a # {} THEN a ELSE b

(* ----------------------------- Result ---------------------------------- *)

NoError == [class |-> "None", code |-> "Ok"]
Ok(v) == [tag |-> "Ok", val |-> v, err |-> NoError]
Err(e) == [tag |-> "Err", val |-> {}, err |-> e]
Error(class, code) == [class |-> class, code |-> code]

(* ------------------------- repository state ---------------------------- *)

\* What HEAD is: a symbolic reference to a branch with a commit, the same
\* with a reference name that is not valid UTF-8, a commit id (detached),
\* or a symbolic reference to a branch without a commit yet (unborn).
\* "master" is the branch the first commit of a new repository is on.
HeadKinds == {"branch", "branch_nonutf8", "detached", "unborn"}

\* Status kinds of work tree entries (git2::Status).
Statuses == {"CURRENT", "WT_MODIFIED", "INDEX_MODIFIED", "WT_NEW", "IGNORED"}

\* Library queries that can fail on an existing repository.
Faults == {"head", "head_detached", "peel_to_commit", "short_id",
           "short_id_utf8", "describe", "statuses"}

\* Failures of repository discovery other than "no repository here".
DiscFaults == {Error("Repository", "GenericError"),
               Error("Os", "NotFound"),
               Error("Os", "GenericError")}

BoundedSubsets(S, n) == {x \in SUBSET S : Cardinality(x) <= n}

\* gitDir is the depth of the directory that holds the repository, -1 when
\* there is none.  discFault is the failure discovery runs into, if any.
MkRepo(gitDir, discFault, head, tagged, entries, faults) ==
    [gitDir |-> gitDir, discFault |-> discFault, head |-> head,
     tagged |-> tagged, entries |-> entries, faults |-> faults]

NoRepo == MkRepo(-1, NoError, "unborn", FALSE, {}, {})

Repos ==
    {NoRepo}
    \cup {MkRepo(0, f, "unborn", FALSE, {}, {}) : f \in DiscFaults}
    \cup {MkRepo(g, NoError, h, t, e, fs) :
            g \in 0..MaxDepth, h \in HeadKinds, t \in BOOLEAN,
            e \in BoundedSubsets(Statuses, MaxEntries),
            fs \in BoundedSubsets(Faults, MaxFaults)}

\* The commit HEAD points to.
CommitOf(r) == HexText(1, HashLen)

(* ------------------------- RepoInfo record ----------------------------- *)

RepoInfo(branch, tag, dirty, commit_id, commit_id_short) ==
    [branch |-> branch, tag |-> tag, dirty |-> dirty,
     commit_id |-> commit_id, commit_id_short |-> commit_id_short]

\* RepoInfo::default()
DefaultRepoInfo == RepoInfo(None, None, None, None, None)

Fields == {"branch", "tag", "dirty", "commit_id", "commit_id_short"}

(* -------------------- library queries (git2) --------------------------- *)

\* Walk upward from directory d looking for the repository.
RECURSIVE FoundAtOrAbove(_, _)
FoundAtOrAbove(r, d) ==
    IF r.gitDir = d THEN TRUE
    ELSE IF d <= 0 THEN FALSE
    ELSE FoundAtOrAbove(r, d - 1)

\* git2::Repository::discover(root)
Discover(r, root) ==
    IF r.discFault # NoError THEN Err(r.discFault)
    ELSE IF FoundAtOrAbove(r, root) THEN Ok(Some(r.gitDir))
    ELSE Err(Error("Repository", "NotFound"))

\* HEAD resolves to a commit.
HasCommit(r) == r.head # "unborn"

\* repo.head()
RepoHead(r) ==
    IF "head" \in r.faults THEN Err(Error("Reference", "GenericError"))
    ELSE IF r.head = "unborn" THEN Err(Error("Reference", "UnbornBranch"))
    ELSE Ok(Some(r.head))

\* repo.head_detached()
HeadDetached(r) ==
    IF "head_detached" \in r.faults THEN Err(Error("Reference", "GenericError"))
    ELSE Ok(Some(r.head = "detached"))

\* head_ref.name(): the name of the reference repo.head() returned, which is
\* HEAD itself when detached; None when the name is not valid UTF-8.
HeadRefName(r) ==
    IF r.head = "branch_nonutf8" THEN None
    ELSE IF r.head = "detached" THEN Some(HeadName)
    ELSE IF r.head = "master" THEN Some(RefsHeadsMaster)
    ELSE Some(RefsHeadsBaz)

\* head_ref.peel_to_commit()
PeelToCommit(r) ==
    IF "peel_to_commit" \in r.faults THEN Err(Error("Odb", "NotFound"))
    ELSE Ok(Some(CommitOf(r)))

\* head.into_object().short_id(), followed by as_str().unwrap_or_default()
ShortId(r) ==
    IF "short_id" \in r.faults THEN Err(Error("Odb", "GenericError"))
    ELSE IF "short_id_utf8" \in r.faults THEN Ok(Some(EmptyText))
    ELSE Ok(Some(Take(CommitOf(r), AbbrevLen)))

\* HEAD resolves to a commit that can be read.
HeadCommitReadable(r) ==
    HasCommit(r) /\ r.faults \cap {"head", "peel_to_commit"} = {}

\* Describe that does not look at tags.
Describe_NoTags(r) ==
    IF "describe" \in r.faults \/ ~HeadCommitReadable(r)
    THEN Err(Error("Describe", "GenericError"))
    ELSE Ok(Some(Take(CommitOf(r), AbbrevLen)))

\* repo.describe(describe_tags, show_commit_oid_as_fallback).format(None):
\* describes the commit of HEAD.
Describe(r) ==
    IF "describe" \in r.faults \/ ~HeadCommitReadable(r)
    THEN Err(Error("Describe", "GenericError"))
    ELSE Ok(Some(IF r.tagged THEN Foobar ELSE Take(CommitOf(r), AbbrevLen)))

\* The entries repo.statuses(options) lists.
StatusEntries(r, include_ignored, include_untracked) ==
    {s \in r.entries : /\ (s = "IGNORED" => include_ignored)
                       /\ (s = "WT_NEW" => include_untracked)}

\* RepoStatuses with untracked entries left in the listing.
RepoStatuses_Untracked(r) ==
    IF "statuses" \in r.faults THEN Err(Error("Index", "GenericError"))
    ELSE Ok(Some(StatusEntries(r, FALSE, TRUE)))

\* repo.statuses(Some(&mut st_opt)) with ignored and untracked excluded
RepoStatuses(r) ==
    IF "statuses" \in r.faults THEN Err(Error("Index", "GenericError"))
    ELSE Ok(Some(StatusEntries(r, FALSE, FALSE)))

\* .iter().any(|status| !matches!(status.status(), git2::Status::CURRENT))
AnyNotCurrent(entries) == \E s \in entries : s # "CURRENT"

(* ------------------------- git2 backend (git.rs) ----------------------- *)

\* IsRepositoryNotFound testing the error code only.
IsRepositoryNotFound_CodeOnly(e) == e.code = "NotFound"

\* IsRepositoryNotFound testing for the wrong error class.
IsRepositoryNotFound_WrongClass(e) == e.class = "Os" /\ e.code = "NotFound"

\* e.class() == Repository && e.code() == NotFound
IsRepositoryNotFound(e) == e.class = "Repository" /\ e.code = "NotFound"

DescribeResult(tag, dirty) == [tag |-> tag, dirty |-> dirty]
HeadResult(branch, commit, short) ==
    [branch |-> branch, commit |-> commit, short |-> short]

get_repo_description(r, root) ==
    LET d == Discover(r, root) IN
    IF d.tag = "Ok" THEN
        LET tag == Describe(r)
            st == RepoStatuses(r)
        IN  IF tag.tag = "Err" THEN Err(tag.err)
            ELSE IF st.tag = "Err" THEN Err(st.err)
            ELSE Ok(Some(DescribeResult(Unwrap(tag.val),
                                        AnyNotCurrent(Unwrap(st.val)))))
    ELSE IF IsRepositoryNotFound(d.err) THEN Ok(None)
    ELSE Err(d.err)

\* HeadBranch without the detached check.
HeadBranch_NoDetachedCheck(r, detached) == HeadRefName(r)

\* The branch of get_repo_head: None when detached, else head_ref.name().
HeadBranch(r, detached) == IF detached THEN None ELSE HeadRefName(r)

get_repo_head(r, root) ==
    LET d == Discover(r, root) IN
    IF d.tag = "Ok" THEN
        LET head_ref == RepoHead(r)
            det == HeadDetached(r)
            head == PeelToCommit(r)
            commit_short == ShortId(r)
        IN  IF head_ref.tag = "Err" THEN Err(head_ref.err)
            ELSE IF det.tag = "Err" THEN Err(det.err)
            ELSE IF head.tag = "Err" THEN Err(head.err)
            ELSE IF commit_short.tag = "Err" THEN Err(commit_short.err)
            ELSE Ok(Some(HeadResult(HeadBranch(r, Unwrap(det.val)),
                                    Unwrap(head.val),
                                    Unwrap(commit_short.val))))
    ELSE IF IsRepositoryNotFound(d.err) THEN Ok(None)
    ELSE Err(d.err)

(* --------------------- write_variables (git_shared.rs) ----------------- *)

\* The short hash written for a record: derived from the full hash when a
\* full hash is present and no short hash is.
ShortHashFixup(commit_id, commit_id_short) ==
    IF IsSome(commit_id) /\ commit_id_short = None
    THEN Some(Take(Unwrap(commit_id), SHORT_HASH_LENGTH))
    ELSE commit_id_short

\* The record write_variables emits for the record it is given.
write_variables(info) ==
    [info EXCEPT !.commit_id_short =
        ShortHashFixup(info.commit_id, info.commit_id_short)]

\* git::write_git_version: the record handed to write_variables.
git_RepoInfo(desc, head) ==
    LET td == IF desc.tag = "Ok" /\ IsSome(desc.val)
              THEN <<Some(Unwrap(desc.val).tag), Some(Unwrap(desc.val).dirty)>>
              ELSE <<None, None>>
        bc == IF head.tag = "Ok" /\ IsSome(head.val)
              THEN <<Unwrap(head.val).branch, Some(Unwrap(head.val).commit),
                     Some(Unwrap(head.val).short)>>
              ELSE <<None, None, None>>
    IN  RepoInfo(bc[1], td[1], td[2], bc[2], bc[3])

(* --------------------------- gix backend (gix.rs) ---------------------- *)

\* repo.head_name(): the name HEAD points to, None when detached.
GixHeadName(r) ==
    IF "head" \in r.faults THEN Err(Error("Reference", "GenericError"))
    ELSE Ok(IF r.head = "detached" THEN None
            ELSE IF r.head = "branch_nonutf8" THEN Some(LossyRefName)
            ELSE IF r.head = "master" THEN Some(RefsHeadsMaster)
            ELSE Some(RefsHeadsBaz))

\* repo.head_commit()
GixHeadCommit(r) ==
    IF ~HasCommit(r) \/ "peel_to_commit" \in r.faults
    THEN Err(Error("Odb", "NotFound"))
    ELSE Ok(Some(CommitOf(r)))

\* commit.describe().format().ok()
GixDescribe(r) ==
    IF "describe" \in r.faults THEN None
    ELSE Some(IF r.tagged THEN Foobar ELSE Take(CommitOf(r), AbbrevLen))

\* commit.id().shorten().ok()
GixShorten(r) ==
    IF "short_id" \in r.faults THEN None
    ELSE Some(Take(CommitOf(r), AbbrevLen))

is_dirty(r, manifest_location) ==
    LET d == Discover(r, manifest_location)
        st == RepoStatuses(r)
    IN  IF d.tag = "Err" THEN None
        ELSE IF st.tag = "Err" THEN None
        ELSE Some(AnyNotCurrent(Unwrap(st.val)))

\* get_repo_info that gives up as a whole when a sub-query of the commit fails.
get_repo_info_AllOrNothing(r, manifest_location) ==
    LET d == Discover(r, manifest_location)
        name == GixHeadName(r)
        commit == GixHeadCommit(r)
    IN  IF d.tag = "Err" THEN None
        ELSE IF name.tag = "Err" THEN None
        ELSE IF commit.tag = "Ok"
             THEN IF \/ GixDescribe(r) = None
                     \/ is_dirty(r, manifest_location) = None
                     \/ GixShorten(r) = None
                  THEN None
                  ELSE Some(RepoInfo(name.val, GixDescribe(r),
                                     is_dirty(r, manifest_location),
                                     Some(Unwrap(commit.val)), GixShorten(r)))
             ELSE Some([DefaultRepoInfo EXCEPT !.branch = name.val])

get_repo_info(r, manifest_location) ==
    LET d == Discover(r, manifest_location)
        name == GixHeadName(r)
        commit == GixHeadCommit(r)
    IN  IF d.tag = "Err" THEN None
        ELSE IF name.tag = "Err" THEN None
        ELSE IF commit.tag = "Ok"
             THEN Some(RepoInfo(name.val, GixDescribe(r),
                                is_dirty(r, manifest_location),
                                Some(Unwrap(commit.val)), GixShorten(r)))
             ELSE Some([DefaultRepoInfo EXCEPT !.branch = name.val])

\* gix::write_git_version: the record it writes.
gix_write_git_version(r, manifest_location) ==
    LET info == get_repo_info(r, manifest_location) IN
    IF IsSome(info) THEN Unwrap(info) ELSE DefaultRepoInfo

(* ------------------------ resolver (git_shared.rs) --------------------- *)

\* The override variables of the environment, each present or not.
EnvironmentMaps ==
    [GIT_HEAD_REF : {None, Some(OverrideRef)},
     GIT_VERSION : {None, Some(OverrideVersion)},
     GIT_DIRTY : {None, Some(TRUE), Some(FALSE)},
     GIT_COMMIT_HASH : {None, Some(HexText(5, HashLen)),
                        Some(HexText(5, ShortTextLen))},
     GIT_COMMIT_HASH_SHORT : {None, Some(HexText(9, ShortTextLen - 1))}]

EmptyEnvironment ==
    [GIT_HEAD_REF |-> None, GIT_VERSION |-> None, GIT_DIRTY |-> None,
     GIT_COMMIT_HASH |-> None, GIT_COMMIT_HASH_SHORT |-> None]

\* RepoInfo::from_overrides
from_overrides(env) ==
    RepoInfo(env.GIT_HEAD_REF, env.GIT_VERSION, env.GIT_DIRTY,
             env.GIT_COMMIT_HASH, env.GIT_COMMIT_HASH_SHORT)

\* The backend queries as the resolver calls them: they return an Option,
\* None standing for "unavailable".
head(r, root) ==
    LET h == get_repo_head(r, root) IN
    IF h.tag = "Ok" THEN h.val ELSE None

describe(r, root) ==
    LET d == get_repo_description(r, root) IN
    IF d.tag = "Ok" THEN d.val ELSE None

\* NeedsHead with the three tests joined by && instead of ||.
NeedsHead_All(i) ==
    i.branch = None /\ i.commit_id = None /\ i.commit_id_short = None

\* branch.is_none() || commit_id.is_none() || commit_id_short.is_none()
NeedsHead(i) ==
    i.branch = None \/ i.commit_id = None \/ i.commit_id_short = None

\* MergeHead with the backend's values taking precedence.
MergeHead_BackendWins(i, h) ==
    IF IsSome(h)
    THEN [i EXCEPT !.branch = Or(Unwrap(h).branch, i.branch),
                   !.commit_id = Some(Unwrap(h).commit),
                   !.commit_id_short = Some(Unwrap(h).short)]
    ELSE i

\* The fields after `if let Some(..) = get_repo_head(..)`.
MergeHead(i, h) ==
    IF IsSome(h)
    THEN [i EXCEPT !.branch = Or(i.branch, Unwrap(h).branch),
                   !.commit_id = Or(i.commit_id, Some(Unwrap(h).commit)),
                   !.commit_id_short =
                       Or(i.commit_id_short, Some(Unwrap(h).short))]
    ELSE i

\* MergeDescribe that gives up when the head query left no commit hash.
MergeDescribe_AfterHead(i, d) ==
    IF IsSome(d) /\ IsSome(i.commit_id)
    THEN [i EXCEPT !.tag = Or(i.tag, Some(Unwrap(d).tag)),
                   !.dirty = Or(i.dirty, Some(Unwrap(d).dirty))]
    ELSE i

\* NeedsDescribe with the two tests joined by && instead of ||.
NeedsDescribe_All(i) == i.tag = None /\ i.dirty = None

\* tag.is_none() || dirty.is_none()
NeedsDescribe(i) == i.tag = None \/ i.dirty = None

\* The fields after `if let Some(..) = get_repo_description(..)`.
MergeDescribe(i, d) ==
    IF IsSome(d)
    THEN [i EXCEPT !.tag = Or(i.tag, Some(Unwrap(d).tag)),
                   !.dirty = Or(i.dirty, Some(Unwrap(d).dirty))]
    ELSE i

(* ------------------------------ state ---------------------------------- *)

VARIABLES
    repo,               \* the repository state on disk
    manifest_location,  \* depth of the directory the queries start from
    envmap,             \* the override variables of the running resolution
    pc,                 \* position of git_shared::write_git_version
    info,               \* its local branch, tag, dirty, commit_id, commit_id_short
    headCalls,          \* number of get_repo_head calls it made
    describeCalls,      \* number of get_repo_description calls it made
    headRes,            \* what its get_repo_head call returned, if made
    descRes,            \* what its get_repo_description call returned, if made
    out,                \* the record it handed to the writer, if any
    gitDesc,            \* git::write_git_version: result of get_repo_description
    gitHead,            \* git::write_git_version: result of get_repo_head
    outGit,             \* the record git::write_git_version wrote, if any
    gixInfo,            \* gix::write_git_version: result of get_repo_info
    outGix              \* the record gix::write_git_version wrote, if any

vars == <<repo, manifest_location, envmap, pc, info, headCalls, describeCalls,
          headRes, descRes, out, gitDesc, gitHead, outGit, gixInfo, outGix>>

resolverVars == <<envmap, pc, info, headCalls, describeCalls, headRes,
                  descRes, out>>
backendVars == <<gitDesc, gitHead, outGit, gixInfo, outGix>>

InitCommon ==
    /\ manifest_location \in 0..MaxDepth
    /\ envmap = EmptyEnvironment
    /\ pc = "idle"
    /\ info = DefaultRepoInfo
    /\ headCalls = 0
    /\ describeCalls = 0
    /\ headRes = None
    /\ descRes = None
    /\ out = None
    /\ gitDesc = None
    /\ gitHead = None
    /\ outGit = None
    /\ gixInfo = None
    /\ outGix = None

\* Any repository state, any starting directory.
InitBackend ==
    /\ repo \in Repos
    /\ InitCommon

\* The repository states the resolver is run on.
Init ==
    /\ repo \in {r \in Repos : /\ Cardinality(r.faults) <= ResolverMaxFaults
                               /\ r.entries \subseteq {"WT_MODIFIED"}}
    /\ InitCommon

(* ----------------- git_shared::write_git_version, by steps ------------- *)

\* Lines 40-46: the locals start from the overrides.
ResolveStart ==
    /\ pc = "idle"
    /\ \E env \in EnvironmentMaps :
         /\ envmap' = env
         /\ info' = from_overrides(env)
    /\ pc' = "head"
    /\ UNCHANGED <<repo, manifest_location, headCalls, describeCalls,
                   headRes, descRes, out, backendVars>>

\* Lines 48-56: query HEAD unless its three fields are all overridden.
ResolveHead ==
    /\ pc = "head"
    /\ IF NeedsHead(info)
       THEN LET h == head(repo, manifest_location) IN
            /\ headCalls' = headCalls + 1
            /\ headRes' = Some(h)
            /\ info' = MergeHead(info, h)
       ELSE UNCHANGED <<headCalls, headRes, info>>
    /\ pc' = "describe"
    /\ UNCHANGED <<repo, manifest_location, envmap, describeCalls, descRes,
                   out, backendVars>>

\* Lines 58-65: query the description unless tag and dirty are overridden.
ResolveDescribe ==
    /\ pc = "describe"
    /\ IF NeedsDescribe(info)
       THEN LET d == describe(repo, manifest_location) IN
            /\ describeCalls' = describeCalls + 1
            /\ descRes' = Some(d)
            /\ info' = MergeDescribe(info, d)
       ELSE UNCHANGED <<describeCalls, descRes, info>>
    /\ pc' = "write"
    /\ UNCHANGED <<repo, manifest_location, envmap, headCalls, headRes,
                   out, backendVars>>

\* Lines 67-77 and write_variables: the record is written.
ResolveWrite ==
    /\ pc = "write"
    /\ out' = Some(write_variables(info))
    /\ pc' = "done"
    /\ UNCHANGED <<repo, manifest_location, envmap, info, headCalls,
                   describeCalls, headRes, descRes, backendVars>>

(* ------------------------ the backends' entry points ------------------- *)

\* git::write_git_version (git.rs 4-28)
GitWriteGitVersion ==
    /\ outGit = None
    /\ LET d == get_repo_description(repo, manifest_location)
           h == get_repo_head(repo, manifest_location)
       IN  /\ gitDesc' = Some(d)
           /\ gitHead' = Some(h)
           /\ outGit' = Some(write_variables(git_RepoInfo(d, h)))
    /\ UNCHANGED <<repo, manifest_location, resolverVars, gixInfo, outGix>>

\* gix::write_git_version (gix.rs 55-112)
GixWriteGitVersion ==
    /\ outGix = None
    /\ gixInfo' = Some(get_repo_info(repo, manifest_location))
    /\ outGix' = Some(gix_write_git_version(repo, manifest_location))
    /\ UNCHANGED <<repo, manifest_location, resolverVars, gitDesc, gitHead,
                   outGit>>

(* --------------------------- specifications ---------------------------- *)

Next ==
    \/ ResolveStart
    \/ ResolveHead
    \/ ResolveDescribe
    \/ ResolveWrite
    \/ GitWriteGitVersion

Spec == Init /\ [][Next]_vars

NextBackend ==
    \/ GitWriteGitVersion
    \/ GixWriteGitVersion

SpecBackend == InitBackend /\ [][NextBackend]_vars

(* ------------- changes of the repository (tests::parse_git_repo) ------- *)

\* The queries start in some directory; there is no repository yet.
InitRepo ==
    /\ repo = NoRepo
    /\ InitCommon

\* git2::Repository::init_opts(&repo_root, ..)
RepositoryInit ==
    /\ repo = NoRepo
    /\ \E g \in 0..MaxDepth :
         repo' = MkRepo(g, NoError, "unborn", FALSE, {}, {})
    /\ UNCHANGED <<manifest_location, resolverVars, backendVars>>

\* std::fs::write(&cruft_file, ..) of a file that is not tracked.
WriteUntracked ==
    /\ repo.gitDir >= 0
    /\ "WT_NEW" \notin repo.entries
    /\ Cardinality(repo.entries) < MaxEntries
    /\ repo' = [repo EXCEPT !.entries = @ \cup {"WT_NEW"}]
    /\ UNCHANGED <<manifest_location, resolverVars, backendVars>>

\* idx.add_path(cruftfile) and repo.commit(Some("HEAD"), ..): the first commit.
FirstCommit ==
    /\ repo.gitDir >= 0
    /\ repo.head = "unborn"
    /\ "WT_NEW" \in repo.entries
    /\ repo' = [repo EXCEPT !.head = "master",
                            !.entries = (@ \ {"WT_NEW"}) \cup {"CURRENT"}]
    /\ UNCHANGED <<manifest_location, resolverVars, backendVars>>

\* repo.tag("foobar", commit, ..)
TagHead ==
    /\ repo.gitDir >= 0
    /\ HasCommit(repo)
    /\ ~repo.tagged
    /\ repo' = [repo EXCEPT !.tagged = TRUE]
    /\ UNCHANGED <<manifest_location, resolverVars, backendVars>>

\* std::fs::write(cruft_file, "now dirty") of the committed file.
ModifyTracked ==
    /\ repo.gitDir >= 0
    /\ "CURRENT" \in repo.entries
    /\ repo' = [repo EXCEPT !.entries = (@ \ {"CURRENT"}) \cup {"WT_MODIFIED"}]
    /\ UNCHANGED <<manifest_location, resolverVars, backendVars>>

\* repo.branch("baz", &commit, true) and repo.set_head("refs/heads/baz")
SetHeadBranch ==
    /\ repo.gitDir >= 0
    /\ HasCommit(repo)
    /\ repo.head # "branch"
    /\ repo' = [repo EXCEPT !.head = "branch"]
    /\ UNCHANGED <<manifest_location, resolverVars, backendVars>>

\* repo.set_head_detached(commit_oid)
SetHeadDetached ==
    /\ repo.gitDir >= 0
    /\ HasCommit(repo)
    /\ repo.head # "detached"
    /\ repo' = [repo EXCEPT !.head = "detached"]
    /\ UNCHANGED <<manifest_location, resolverVars, backendVars>>

\* super::get_repo_description(&project_root), super::get_repo_head(..)
QueryRepository ==
    /\ gitDesc' = Some(get_repo_description(repo, manifest_location))
    /\ gitHead' = Some(get_repo_head(repo, manifest_location))
    /\ UNCHANGED <<repo, manifest_location, resolverVars, outGit, gixInfo,
                   outGix>>

NextRepo ==
    \/ RepositoryInit
    \/ WriteUntracked
    \/ FirstCommit
    \/ TagHead
    \/ ModifyTracked
    \/ SetHeadBranch
    \/ SetHeadDetached
    \/ QueryRepository

SpecRepo == InitRepo /\ [][NextRepo]_vars

(* ------------------------------ claims --------------------------------- *)

\* The override the environment supplies for a field of the record.
OverrideOf(env, f) ==
    CASE f = "branch" -> env.GIT_HEAD_REF
      [] f = "tag" -> env.GIT_VERSION
      [] f = "dirty" -> env.GIT_DIRTY
      [] f = "commit_id" -> env.GIT_COMMIT_HASH
      [] f = "commit_id_short" -> env.GIT_COMMIT_HASH_SHORT

\* C1: in the record the resolver writes, and in its locals at every step
\* before, every field that has an override equals the override, whatever
\* the backend returned and whichever other fields are overridden.
C1_OverrideDominance ==
    \A f \in Fields :
        IsSome(OverrideOf(envmap, f)) =>
            /\ pc # "idle" => info[f] = OverrideOf(envmap, f)
            /\ IsSome(out) => Unwrap(out)[f] = OverrideOf(envmap, f)

\* A record was written with an overridden branch although get_repo_head
\* returned another branch, and with the backend's commit hash.
C1_Witness ==
    /\ IsSome(out)
    /\ IsSome(envmap.GIT_HEAD_REF)
    /\ envmap.GIT_COMMIT_HASH = None
    /\ IsSome(headRes) /\ IsSome(Unwrap(headRes))
    /\ IsSome(Unwrap(Unwrap(headRes)).branch)
    /\ Unwrap(Unwrap(headRes)).branch # envmap.GIT_HEAD_REF
    /\ Unwrap(out).branch = envmap.GIT_HEAD_REF
    /\ Unwrap(out).commit_id = Some(Unwrap(Unwrap(headRes)).commit)

\* C2: when commit_id is overridden and commit_id_short is not, the written
\* commit_id_short is the first 8 characters of the overridden commit_id,
\* whatever get_repo_head returned.
C2_ShortFromOverriddenCommit ==
    (/\ IsSome(out)
     /\ IsSome(envmap.GIT_COMMIT_HASH)
     /\ envmap.GIT_COMMIT_HASH_SHORT = None)
    => Unwrap(out).commit_id_short =
           Some(Take(Unwrap(envmap.GIT_COMMIT_HASH), SHORT_HASH_LENGTH))

\* C4: get_repo_head is called at most once, and once the head step is past
\* it was called exactly when branch, commit_id or commit_id_short had no
\* override; likewise get_repo_description for tag and dirty.
C4_QueryInvocation ==
    /\ headCalls <= 1
    /\ describeCalls <= 1
    /\ (headCalls = 1) <=> IsSome(headRes)
    /\ (describeCalls = 1) <=> IsSome(descRes)
    /\ pc \in {"idle", "head"} => headCalls = 0
    /\ pc \in {"idle", "head", "describe"} => describeCalls = 0
    /\ pc \in {"describe", "write", "done"} =>
         ((headCalls = 1) <=>
            (\/ envmap.GIT_HEAD_REF = None
             \/ envmap.GIT_COMMIT_HASH = None
             \/ envmap.GIT_COMMIT_HASH_SHORT = None))
    /\ pc \in {"write", "done"} =>
         ((describeCalls = 1) <=>
            (envmap.GIT_VERSION = None \/ envmap.GIT_DIRTY = None))

\* A resolution finished that called get_repo_head for a single missing
\* field and skipped get_repo_description.
C4_Witness ==
    /\ pc = "done"
    /\ IsSome(envmap.GIT_HEAD_REF)
    /\ IsSome(envmap.GIT_COMMIT_HASH)
    /\ envmap.GIT_COMMIT_HASH_SHORT = None
    /\ IsSome(envmap.GIT_VERSION)
    /\ IsSome(envmap.GIT_DIRTY)
    /\ headCalls = 1
    /\ describeCalls = 0

\* A written record keeps the short-hash rule with respect to the record
\* `before` that was handed to the writer.
ShortHashRule(before, written) ==
    /\ IsSome(written.commit_id) => IsSome(written.commit_id_short)
    /\ (IsSome(before.commit_id) /\ before.commit_id_short = None) =>
          written.commit_id_short =
              Some(Take(Unwrap(before.commit_id), SHORT_HASH_LENGTH))
    /\ IsSome(before.commit_id_short) =>
          written.commit_id_short = before.commit_id_short

\* C3: every record an entry point writes (the resolver, git::write_git_version,
\* gix::write_git_version) has commit_id_short present whenever commit_id is
\* present: derived as the first 8 characters of commit_id when it was absent
\* before the final fix-up, unchanged when it was present.
C3_ShortHashInvariant ==
    /\ IsSome(out) => ShortHashRule(info, Unwrap(out))
    /\ IsSome(outGit) =>
          ShortHashRule(git_RepoInfo(Unwrap(gitDesc), Unwrap(gitHead)),
                        Unwrap(outGit))
    /\ IsSome(outGix) =>
          (IsSome(Unwrap(outGix).commit_id) =>
              IsSome(Unwrap(outGix).commit_id_short))

\* No repository is at or above the directory the queries start from, and
\* discovery runs into no other failure.
NotDiscoverable ==
    /\ repo.discFault = NoError
    /\ repo.gitDir = -1 \/ repo.gitDir > manifest_location

\* C5 and C6 speak of the resolver of git_shared.rs and of
\* git::write_git_version, which resolves without overrides.

\* An Option-returning query was either not made or returned None.
Unavailable(res) == res = None \/ res = Some(None)

\* C5 as claimed: with no repository discoverable both queries yield
\* "unavailable" and not an error, the record is written, and every field of
\* it equals its override: absent without one, the override with one.
C5_NotFoundBenign ==
    /\ (pc = "done" /\ NotDiscoverable) =>
        /\ Unavailable(headRes)
        /\ Unavailable(descRes)
        /\ IsSome(out)
        /\ \A f \in Fields : Unwrap(out)[f] = OverrideOf(envmap, f)
    /\ (IsSome(outGit) /\ NotDiscoverable) =>
        /\ gitHead = Some(Ok(None))
        /\ gitDesc = Some(Ok(None))
        /\ outGit = Some(DefaultRepoInfo)

\* C5 amended: as C5, except that commit_id_short without an override is the
\* first 8 characters of an overridden commit_id.
C5_NotFoundBenignAmended ==
    /\ (pc = "done" /\ NotDiscoverable) =>
        /\ Unavailable(headRes)
        /\ Unavailable(descRes)
        /\ IsSome(out)
        /\ \A f \in Fields \ {"commit_id_short"} :
              Unwrap(out)[f] = OverrideOf(envmap, f)
        /\ Unwrap(out).commit_id_short =
              IF IsSome(envmap.GIT_COMMIT_HASH_SHORT)
              THEN envmap.GIT_COMMIT_HASH_SHORT
              ELSE IF IsSome(envmap.GIT_COMMIT_HASH)
              THEN Some(Take(Unwrap(envmap.GIT_COMMIT_HASH), SHORT_HASH_LENGTH))
              ELSE None
    /\ (IsSome(outGit) /\ NotDiscoverable) =>
        /\ gitHead = Some(Ok(None))
        /\ gitDesc = Some(Ok(None))
        /\ outGit = Some(DefaultRepoInfo)

\* A resolution finished in a directory above the repository, with dirty
\* overridden and both queries made and unavailable.
C5_Witness ==
    /\ pc = "done"
    /\ repo.discFault = NoError
    /\ repo.gitDir > manifest_location
    /\ envmap.GIT_DIRTY = Some(TRUE)
    /\ envmap.GIT_VERSION = None
    /\ envmap.GIT_COMMIT_HASH = None
    /\ headRes = Some(None)
    /\ descRes = Some(None)
    /\ Unwrap(out) = [DefaultRepoInfo EXCEPT !.dirty = Some(TRUE)]
    /\ gitHead = Some(Ok(None))
    /\ outGit = Some(DefaultRepoInfo)

\* C6: each half of the written record is its overrides completed by what
\* its own query returned, whatever the other query did or failed with; no
\* query is made twice, and a finished resolution has written a record.
C6_HalvesIndependent ==
    /\ headCalls <= 1
    /\ describeCalls <= 1
    /\ pc = "done" =>
        /\ IsSome(out)
        /\ IF IsSome(descRes) /\ IsSome(Unwrap(descRes))
           THEN /\ Unwrap(out).tag =
                     Or(envmap.GIT_VERSION, Some(Unwrap(Unwrap(descRes)).tag))
                /\ Unwrap(out).dirty =
                     Or(envmap.GIT_DIRTY, Some(Unwrap(Unwrap(descRes)).dirty))
           ELSE /\ Unwrap(out).tag = envmap.GIT_VERSION
                /\ Unwrap(out).dirty = envmap.GIT_DIRTY
        /\ IF IsSome(headRes) /\ IsSome(Unwrap(headRes))
           THEN /\ Unwrap(out).branch =
                     Or(envmap.GIT_HEAD_REF, Unwrap(Unwrap(headRes)).branch)
                /\ Unwrap(out).commit_id =
                     Or(envmap.GIT_COMMIT_HASH,
                        Some(Unwrap(Unwrap(headRes)).commit))
           ELSE /\ Unwrap(out).branch = envmap.GIT_HEAD_REF
                /\ Unwrap(out).commit_id = envmap.GIT_COMMIT_HASH
    /\ IsSome(outGit) =>
        LET d == Unwrap(gitDesc)
            h == Unwrap(gitHead)
            o == Unwrap(outGit)
        IN  /\ IF d.tag = "Ok" /\ IsSome(d.val)
               THEN /\ o.tag = Some(Unwrap(d.val).tag)
                    /\ o.dirty = Some(Unwrap(d.val).dirty)
               ELSE o.tag = None /\ o.dirty = None
            /\ IF h.tag = "Ok" /\ IsSome(h.val)
               THEN /\ o.branch = Unwrap(h.val).branch
                    /\ o.commit_id = Some(Unwrap(h.val).commit)
                    /\ o.commit_id_short = Some(Unwrap(h.val).short)
               ELSE o.branch = None /\ o.commit_id = None

\* A resolution finished whose head query failed with an error while the
\* description query succeeded: tag and dirty are filled, the rest absent.
C6_Witness ==
    /\ pc = "done"
    /\ envmap = EmptyEnvironment
    /\ get_repo_head(repo, manifest_location).tag = "Err"
    /\ headRes = Some(None)
    /\ IsSome(descRes) /\ IsSome(Unwrap(descRes))
    /\ Unwrap(out).tag = Some(Unwrap(Unwrap(descRes)).tag)
    /\ Unwrap(out).dirty = Some(Unwrap(Unwrap(descRes)).dirty)
    /\ Unwrap(out).commit_id = None
    /\ IsSome(outGit)
    /\ Unwrap(outGit).tag = Unwrap(out).tag
    /\ Unwrap(outGit).commit_id = None

\* One of the library queries get_repo_head makes after discovery fails.
HeadQueryFails(r) ==
    \/ r.head = "unborn"
    \/ r.faults \cap {"head", "head_detached", "peel_to_commit", "short_id"} # {}

\* One of the library queries get_repo_description makes after discovery fails.
DescriptionQueryFails(r) ==
    \/ r.head = "unborn"
    \/ r.faults \cap {"head", "peel_to_commit", "describe", "statuses"} # {}

\* A repository is at or above the directory the queries start from.
RepositoryAbove == repo.gitDir >= 0 /\ repo.gitDir <= manifest_location

\* C7: get_repo_head and get_repo_description of the git2 backend return
\* Ok(None) exactly when discovery fails with class Repository and code
\* NotFound; any other failure of discovery or of a later query is an Err.
C7_NotFoundDistinguishable ==
    (IsSome(gitHead) /\ IsSome(gitDesc)) =>
        /\ (Unwrap(gitHead) = Ok(None)) <=> NotDiscoverable
        /\ (Unwrap(gitDesc) = Ok(None)) <=> NotDiscoverable
        /\ repo.discFault # NoError =>
              /\ Unwrap(gitHead) = Err(repo.discFault)
              /\ Unwrap(gitDesc) = Err(repo.discFault)
        /\ (repo.discFault = NoError /\ RepositoryAbove) =>
              /\ HeadQueryFails(repo) <=> Unwrap(gitHead).tag = "Err"
              /\ DescriptionQueryFails(repo) <=> Unwrap(gitDesc).tag = "Err"

\* Discovery failed with code NotFound of a class other than Repository and
\* both queries returned that error.
C7_Witness ==
    /\ IsSome(gitHead) /\ IsSome(gitDesc)
    /\ repo.discFault = Error("Os", "NotFound")
    /\ Unwrap(gitHead) = Err(Error("Os", "NotFound"))
    /\ Unwrap(gitDesc) = Err(Error("Os", "NotFound"))

\* Some tracked entry of the work tree is not unmodified.
TrackedEntryNotCurrent(entries) ==
    \E s \in entries : s \notin {"CURRENT", "WT_NEW", "IGNORED"}

\* The repository with its untracked and ignored entries replaced by u.
WithUntracked(r, u) ==
    [r EXCEPT !.entries = (@ \ {"WT_NEW", "IGNORED"}) \cup u]

\* C8: the dirty flag get_repo_description and is_dirty report is true
\* exactly when a tracked entry is not unmodified; it is the same for any
\* untracked and ignored files added or removed, and the same from the
\* repository's root as from the directory below it that was queried.
C8_DirtyDetection ==
    /\ (IsSome(gitDesc) /\ IsSome(Unwrap(gitDesc).val)) =>
          /\ Unwrap(Unwrap(gitDesc).val).dirty =
                TrackedEntryNotCurrent(repo.entries)
          /\ \A u \in SUBSET {"WT_NEW", "IGNORED"} :
                get_repo_description(WithUntracked(repo, u), manifest_location)
                    = Unwrap(gitDesc)
          /\ get_repo_description(repo, repo.gitDir) = Unwrap(gitDesc)
    /\ (IsSome(outGix) /\ IsSome(Unwrap(outGix).dirty)) =>
          /\ Unwrap(outGix).dirty = Some(TrackedEntryNotCurrent(repo.entries))
          /\ \A u \in SUBSET {"WT_NEW", "IGNORED"} :
                is_dirty(WithUntracked(repo, u), manifest_location)
                    = Unwrap(outGix).dirty
          /\ is_dirty(repo, repo.gitDir) = Unwrap(outGix).dirty

\* Queried from below the root, a work tree with an untracked file and a
\* modified tracked file is dirty for both backends.
C8_Witness ==
    /\ IsSome(gitDesc) /\ IsSome(Unwrap(gitDesc).val)
    /\ IsSome(outGix)
    /\ manifest_location > repo.gitDir
    /\ repo.entries = {"WT_NEW", "WT_MODIFIED"}
    /\ Unwrap(Unwrap(gitDesc).val).dirty = TRUE
    /\ Unwrap(outGix).dirty = Some(TRUE)

\* A work tree holding only an untracked file is clean for both backends.
C8_WitnessClean ==
    /\ IsSome(gitDesc) /\ IsSome(Unwrap(gitDesc).val)
    /\ IsSome(outGix)
    /\ repo.entries = {"WT_NEW"}
    /\ Unwrap(Unwrap(gitDesc).val).dirty = FALSE
    /\ Unwrap(outGix).dirty = Some(FALSE)

\* C9: when get_repo_head returns a value, its branch is absent if HEAD is
\* detached or its reference name is not valid UTF-8 and is the full
\* reference name otherwise, its commit is HEAD's commit and starts with its
\* short hash; it returns a value whenever the repository is discoverable,
\* HEAD resolves to a commit and none of its queries fails.
C9_HeadBranch ==
    IsSome(gitHead) =>
        /\ IsSome(Unwrap(gitHead).val) =>
              LET h == Unwrap(Unwrap(gitHead).val) IN
              /\ repo.head \in {"detached", "branch_nonutf8"} => h.branch = None
              /\ repo.head = "branch" => h.branch = Some(RefsHeadsBaz)
              /\ h.commit = CommitOf(repo)
              /\ StartsWith(h.commit, h.short)
        /\ (/\ repo.discFault = NoError
            /\ RepositoryAbove
            /\ ~HeadQueryFails(repo)) => IsSome(Unwrap(gitHead).val)

\* get_repo_head returned a detached HEAD: no branch, and a non-empty short
\* hash that the full hash starts with.
C9_Witness ==
    /\ IsSome(gitHead) /\ IsSome(Unwrap(gitHead).val)
    /\ repo.head = "detached"
    /\ Unwrap(Unwrap(gitHead).val).branch = None
    /\ Len(Unwrap(Unwrap(gitHead).val).short) = AbbrevLen
    /\ StartsWith(Unwrap(Unwrap(gitHead).val).commit,
                  Unwrap(Unwrap(gitHead).val).short)

\* C10: the records git::write_git_version and gix::write_git_version write
\* for the same repository state are equal in branch, tag, dirty and
\* commit_id, and their short hashes are prefixes of that commit_id.
C10_BackendsSubstitutable ==
    (IsSome(outGit) /\ IsSome(outGix)) =>
        LET a == Unwrap(outGit)
            b == Unwrap(outGix)
        IN  /\ a.branch = b.branch
            /\ a.tag = b.tag
            /\ a.dirty = b.dirty
            /\ a.commit_id = b.commit_id
            /\ IsSome(a.commit_id_short) <=> IsSome(b.commit_id_short)
            /\ \A s \in a.commit_id_short \cup b.commit_id_short :
                  /\ IsSome(a.commit_id)
                  /\ StartsWith(Unwrap(a.commit_id), s)

\* get_repo_description and get_repo_head on the repository as it is now.
DescriptionNow == get_repo_description(repo, manifest_location)
HeadNow == get_repo_head(repo, manifest_location)

\* C11: queried from a directory of the repository, get_repo_description
\* yields the abbreviated hash (not empty) and dirty = false after the first
\* commit; tagging HEAD's commit makes the tag "foobar" and keeps dirty;
\* modifying the tracked file makes dirty true and keeps the tag; pointing
\* HEAD at a new branch keeps the tag and the hashes get_repo_head returns.
C11_DescribeAcrossChanges ==
    [][RepositoryAbove =>
        /\ FirstCommit =>
              /\ DescriptionNow' =
                    Ok(Some(DescribeResult(Take(CommitOf(repo'), AbbrevLen),
                                           FALSE)))
              /\ Len(Unwrap(DescriptionNow'.val).tag) > 0
        /\ TagHead =>
              /\ IsSome(DescriptionNow.val) /\ IsSome(DescriptionNow'.val)
              /\ Unwrap(DescriptionNow'.val).tag = Foobar
              /\ Unwrap(DescriptionNow'.val).dirty =
                    Unwrap(DescriptionNow.val).dirty
        /\ ModifyTracked =>
              /\ (repo.head # "unborn") =>
                    /\ IsSome(DescriptionNow.val) /\ IsSome(DescriptionNow'.val)
                    /\ Unwrap(DescriptionNow'.val).dirty = TRUE
                    /\ Unwrap(DescriptionNow'.val).tag =
                          Unwrap(DescriptionNow.val).tag
        /\ SetHeadBranch =>
              /\ IsSome(DescriptionNow.val) /\ IsSome(DescriptionNow'.val)
              /\ Unwrap(DescriptionNow'.val).tag = Unwrap(DescriptionNow.val).tag
              /\ IsSome(HeadNow.val) /\ IsSome(HeadNow'.val)
              /\ Unwrap(HeadNow'.val).commit = Unwrap(HeadNow.val).commit
              /\ Unwrap(HeadNow'.val).short = Unwrap(HeadNow.val).short
              /\ Unwrap(HeadNow'.val).branch = Some(RefsHeadsBaz)
    ]_vars

\* Queried from a directory below the root after the commit was tagged, the
\* file modified and HEAD pointed at refs/heads/baz: the description is
\* ("foobar", true) and the head is the branch with HEAD's hashes.
C11_Witness ==
    /\ manifest_location > repo.gitDir
    /\ repo.gitDir >= 0
    /\ repo.tagged
    /\ repo.head = "branch"
    /\ repo.entries = {"WT_MODIFIED"}
    /\ gitDesc = Some(Ok(Some(DescribeResult(Foobar, TRUE))))
    /\ gitHead = Some(Ok(Some(HeadResult(Some(RefsHeadsBaz), CommitOf(repo),
                                         Take(CommitOf(repo), AbbrevLen)))))

\* The reference resolver: both queries are always made, every field is the
\* override if there is one and the backend's value otherwise, and the short
\* hash is derived at the end.
ReferenceResolver(env, h, d) ==
    LET backend ==
            RepoInfo(IF IsSome(h) THEN Unwrap(h).branch ELSE None,
                     IF IsSome(d) THEN Some(Unwrap(d).tag) ELSE None,
                     IF IsSome(d) THEN Some(Unwrap(d).dirty) ELSE None,
                     IF IsSome(h) THEN Some(Unwrap(h).commit) ELSE None,
                     IF IsSome(h) THEN Some(Unwrap(h).short) ELSE None)
        merged == [f \in Fields |->
                      IF IsSome(OverrideOf(env, f)) THEN OverrideOf(env, f)
                      ELSE backend[f]]
    IN  [merged EXCEPT !.commit_id_short =
            IF IsSome(merged.commit_id) /\ merged.commit_id_short = None
            THEN Some(Take(Unwrap(merged.commit_id), SHORT_HASH_LENGTH))
            ELSE merged.commit_id_short]

\* C12: the record the resolver writes, skipping a query whose fields are all
\* overridden, is the record of the reference resolver that makes both
\* queries on the same repository and merges with the overrides winning.
C12_SkippingPreservesResult ==
    pc = "done" =>
        out = Some(ReferenceResolver(envmap,
                                     head(repo, manifest_location),
                                     describe(repo, manifest_location)))

\* A resolution finished that skipped both queries although both would have
\* returned values.
C12_Witness ==
    /\ pc = "done"
    /\ headCalls = 0
    /\ describeCalls = 0
    /\ IsSome(head(repo, manifest_location))
    /\ IsSome(describe(repo, manifest_location))
    /\ IsSome(out)
    /\ \A f \in Fields : Unwrap(out)[f] = OverrideOf(envmap, f)

\* A resolution finished that skipped get_repo_description only and took
\* the commit hash from get_repo_head.
C12_WitnessHalf ==
    /\ pc = "done"
    /\ headCalls = 1
    /\ describeCalls = 0
    /\ IsSome(Unwrap(headRes))
    /\ IsSome(describe(repo, manifest_location))
    /\ Unwrap(out).commit_id = Some(Unwrap(Unwrap(headRes)).commit)

\* C13: get_repo_info of the gix backend returns None exactly when discovery
\* or head_name() fails; when HEAD has no commit that can be read it returns
\* a record with at most branch present; when there is one, commit_id is
\* present and tag, dirty and commit_id_short are absent exactly when
\* describe, the status listing or shorten fails, each on its own.
C13_GixDegradesPerField ==
    IsSome(gixInfo) =>
        LET i == Unwrap(gixInfo)
            discovered == repo.discFault = NoError /\ RepositoryAbove
        IN  /\ (i = None) <=> (~discovered \/ "head" \in repo.faults)
            /\ IsSome(i) =>
                 IF repo.head = "unborn" \/ "peel_to_commit" \in repo.faults
                 THEN /\ Unwrap(i).tag = None
                      /\ Unwrap(i).dirty = None
                      /\ Unwrap(i).commit_id = None
                      /\ Unwrap(i).commit_id_short = None
                      /\ (Unwrap(i).branch = None) <=> (repo.head = "detached")
                 ELSE /\ Unwrap(i).commit_id = Some(CommitOf(repo))
                      /\ (Unwrap(i).tag = None) <=> ("describe" \in repo.faults)
                      /\ (Unwrap(i).dirty = None) <=> ("statuses" \in repo.faults)
                      /\ (Unwrap(i).commit_id_short = None)
                            <=> ("short_id" \in repo.faults)
            /\ outGix = Some(IF IsSome(i) THEN Unwrap(i) ELSE DefaultRepoInfo)

\* get_repo_info returned a record of a commit whose description and short
\* hash failed while the status listing succeeded.
C13_Witness ==
    /\ IsSome(gixInfo) /\ IsSome(Unwrap(gixInfo))
    /\ repo.faults = {"describe", "short_id"}
    /\ Unwrap(Unwrap(gixInfo)).tag = None
    /\ Unwrap(Unwrap(gixInfo)).commit_id_short = None
    /\ IsSome(Unwrap(Unwrap(gixInfo)).dirty)
    /\ IsSome(Unwrap(Unwrap(gixInfo)).commit_id)

\* get_repo_info returned a record carrying only the branch for a HEAD
\* without a commit.
C13_WitnessUnborn ==
    /\ IsSome(gixInfo) /\ IsSome(Unwrap(gixInfo))
    /\ repo.head = "unborn"
    /\ IsSome(Unwrap(Unwrap(gixInfo)).branch)
    /\ Unwrap(Unwrap(gixInfo)).commit_id = None

====
